---- MODULE Spec2Model ----
(***************************************************************************)
(* Persona-conditioned response simulation pipeline.                       *)
(*                                                                         *)
(* Four batch drivers of the repository are modelled, selected by `sys`:   *)
(*   "survey" SurveySystem.conduct_survey + AIAgent                        *)
(*   "dt"     DigitalTwinSurveySystem.conduct_survey                       *)
(*   "adv"    AdvancedPersonaSimulator.generate_survey_responses           *)
(*   "enh"    the persona loop of app_enhanced.py around                   *)
(*            EnhancedAIAgent.generate_enhanced_survey_response            *)
(*                                                                         *)
(* A response text is a sequence of tokens (strings) that stand for        *)
(* whitespace-separated pieces of the backend's answer.  Numbers in the    *)
(* model that stand for Python floats are hundredths (0.3 is 30).          *)
(***************************************************************************)
EXTENDS Integers, Sequences, FiniteSets, TLC

VARIABLES
    sys,        \* which driver this run of the program uses
    str_hash,   \* hash(persona.id) % 1000 of a non-numeric id in this process
    persona_data, \* attributes and biography of the persona a prompt is built for
    prompt,     \* the prompt built for that persona (None until built)
    survey,     \* SurveySystem.survey: None or the questions of the survey set
    runs,       \* conduct_survey calls so far that collected a record
    delay,      \* the batch's inter-call delay, in tenths of a second
    clock,      \* time spent sleeping so far, in tenths of a second
    api_key,    \* TRUE iff credentials are available (parameter or environment)
    pc,         \* position of the program
    personas,   \* the batch's persona list
    questions,  \* the batch's question list
    pi, qi,     \* loop indices of the current cell (1-based)
    responses,  \* the driver's local result list
    row,        \* "dt" only: persona_result, the row being filled
    outcomes,   \* log of the backend calls made so far, in call order
    stored,     \* the driver object's result attribute
    returned,   \* the value returned by the batch call (None until it returns)
    stats,      \* statistics shown at the end of SurveySystem.conduct_survey
    analysis    \* result of the post-batch analysis (None until computed)

vars == <<sys, str_hash, persona_data, prompt, survey, runs, delay, clock, api_key, pc, personas, questions, pi, qi,
          responses, row, outcomes, stored, returned, stats, analysis>>

(***************************************************************************)
(* Bounds                                                                  *)
(***************************************************************************)
\* largest persona x question matrix of a batch
MaxCells == 4

(***************************************************************************)
(* Python None / optional values: None is <<>>, a value x is <<x>>.        *)
(***************************************************************************)
None == <<>>

Some(x) == <<x>>

IsNone(o) == Len(o) = 0

Val(o) == o[1]

SetMin(S) == CHOOSE x \in S : \A y \in S : x <= y

SetMax(S) == CHOOSE x \in S : \A y \in S : y <= x

Min2(a, b) == IF a <= b THEN a ELSE b

Max2(a, b) == IF a >= b THEN a ELSE b

RECURSIVE SeqSum(_)
SeqSum(s) == IF s = <<>> THEN 0 ELSE s[1] + SeqSum(Tail(s))

\* Python list.count
Count(s, x) == Cardinality({i \in 1..Len(s) : s[i] = x})

\* the elements of s that satisfy Test, in order
RECURSIVE SelectSeqIdx(_, _)
SelectSeqIdx(s, keep) ==
    IF s = <<>> THEN <<>>
    ELSE IF Len(s) \in keep
         THEN Append(SelectSeqIdx(SubSeq(s, 1, Len(s) - 1), keep), s[Len(s)])
         ELSE SelectSeqIdx(SubSeq(s, 1, Len(s) - 1), keep)

(***************************************************************************)
(* Tokens of a response text                                               *)
(***************************************************************************)
\* the score tag and the reason tag of the documented answer format; the
\* Korean words of the source are written in romanised form (jeomsu, iyu)
ScoreTag == "score:"

ReasonTag == "reason:"

\* integer literals standing alone in the text
NumberTokens == {"0", "1", "2", "3", "4", "5", "6", "7", "8", "9", "10", "12"}

\* int(match.group(1)) for a number token
IntOf(tok) ==
    CASE tok = "0" -> 0 [] tok = "1" -> 1 [] tok = "2" -> 2 [] tok = "3" -> 3
      [] tok = "4" -> 4 [] tok = "5" -> 5 [] tok = "6" -> 6 [] tok = "7" -> 7
      [] tok = "8" -> 8 [] tok = "9" -> 9 [] tok = "10" -> 10 [] tok = "12" -> 12

\* str(n) for the integers that have a number token
TokOf(n) == CHOOSE tok \in NumberTokens : IntOf(tok) = n

\* a digit glued to a word character ("5jeom"): \d+ matches its prefix, \b does not
GluedTokens == {"5jeom"}

\* tokens at whose start the group (\d+) matches
HasDigitPrefix(tok) == tok \in NumberTokens \cup GluedTokens

DigitPrefix(tok) == IF tok = "5jeom" THEN 5 ELSE IntOf(tok)

\* tokens matched by \b[1-7]\b
Standalone17(tok) == tok \in {"1", "2", "3", "4", "5", "6", "7"}

\* len() of a token in characters; "pad" stands for a 60 character sentence
\* without any marker word
TokLen(tok) ==
    CASE tok = "pad" -> 60
      [] tok \in {"score:", "reason:"} -> 3
      [] tok \in {"jeoneun", "jega", "sayong", "5jeom", "10", "12"} -> 2
      [] tok = "gaeinjeogeuro" -> 5
      [] tok = "je gyeongheom" -> 4
      [] tok \in {"ttaemune", "geuraeseo"} -> 3
      [] tok = "waenyahamyeon" -> 4
      [] tok = "{answer:" -> 10
      [] tok = "gaeinjeogin" -> 4
      [] tok = "gyeongheom" -> 2
      [] tok = "fill17" -> 17
      [] tok = "fill19" -> 19
      [] tok = "fill24" -> 24
      [] tok = "fill34" -> 34
      [] OTHER -> 1

\* len(response): the tokens and the single blanks between them
TextLen(t) ==
    IF Len(t) = 0 THEN 0
    ELSE SeqSum([i \in 1..Len(t) |-> TokLen(t[i])]) + (Len(t) - 1)

\* marker words occurring inside a token as substrings
TokSubs(tok) ==
    CASE tok = "reason:" -> {"iyu"}
      [] tok = "jeoneun" -> {"jeoneun"}
      [] tok = "jega" -> {"jega"}
      [] tok = "gaeinjeogeuro" -> {"gaeinjeogeuro"}
      [] tok = "je gyeongheom" -> {"je gyeongheom", "gyeongheom"}
      [] tok = "ttaemune" -> {"ttaemune", "ttaemun"}
      [] tok = "waenyahamyeon" -> {"waenyahamyeon"}
      [] tok = "geuraeseo" -> {"geuraeseo"}
      [] tok = "sayong" -> {"sayong"}
      [] tok = "gaeinjeogin" -> {"gaeinjeogin"}
      [] tok = "gyeongheom" -> {"gyeongheom"}
      [] OTHER -> {}

\* Python `word in response`
Contains(t, word) == \E i \in 1..Len(t) : word \in TokSubs(t[i])

(***************************************************************************)
(* Whitespace of a text: the "NL" token is a line break                    *)
(***************************************************************************)
\* str.strip(): leading and trailing line breaks go
Strip(t) ==
    LET solid == {k \in 1..Len(t) : t[k] # "NL"}
    IN  IF solid = {} THEN <<>> ELSE SubSeq(t, SetMin(solid), SetMax(solid))

\* the end of the line that starts at token i: without DOTALL (.+) stops at
\* the next line break
LineEnd(t, i) ==
    LET nl == {k \in i..Len(t) : t[k] = "NL"}
    IN  IF nl = {} THEN Len(t) ELSE SetMin(nl) - 1

\* first token at or after i that is not a line break (\s* skips line breaks)
SkipNewlines(t, i) ==
    LET rest == {k \in i..Len(t) : t[k] # "NL"}
    IN  IF rest = {} THEN Len(t) + 1 ELSE SetMin(rest)

RECURSIVE Flatten(_)
Flatten(ss) == IF ss = <<>> THEN <<>> ELSE ss[1] \o Flatten(Tail(ss))

(***************************************************************************)
(* AIAgent: score and reasoning extraction (fixed 1..7 scale)              *)
(***************************************************************************)
\* where the digits of a score tag at i would start: after the tag's \s*
NumberPos(t, i) == SkipNewlines(t, i + 1)

\* positions where the score-tag pattern (tag, whitespace, digits) matches
TagMatches(t) ==
    {i \in 1..Len(t) : /\ t[i] = ScoreTag
                       /\ NumberPos(t, i) <= Len(t)
                       /\ HasDigitPrefix(t[NumberPos(t, i)])}

\* int(match.group(1)) of re.search: the first match counts
TaggedNumber(t) == DigitPrefix(t[NumberPos(t, SetMin(TagMatches(t)))])

\* positions matched by \b([1-7])\b
DigitMatches(t) == {i \in 1..Len(t) : Standalone17(t[i])}

\* positions where the reason-tag pattern matches: (.+) needs text after the tag
ReasonMatches(t) == {i \in 1..Len(t) : t[i] = ReasonTag /\ SkipNewlines(t, i + 1) <= Len(t)}

ExtractScore(response) ==
    LET tm == TagMatches(response)
        dm == DigitMatches(response)
    IN  IF tm # {} /\ 1 <= TaggedNumber(response) /\ TaggedNumber(response) <= 7
        THEN Some(TaggedNumber(response))
        ELSE IF dm # {} THEN Some(IntOf(response[SetMin(dm)]))
        ELSE None

\* what is left of a glued token after its digits
GluedRest(tok) == <<"jeom">>

\* the last digit of a number token of two digits
LastDigit(tok) == IF tok = "10" THEN "0" ELSE "2"

\* group (.+) of the pattern tag \s* \d+ \s* (.+) at the score tag i, <<>> when
\* the pattern does not match there; \d+ gives back a digit when nothing else
\* is left for (.+)
TagRest(t, i) ==
    LET j == NumberPos(t, i)
        k == SkipNewlines(t, j + 1)
    IN  IF t[j] \in GluedTokens THEN GluedRest(t[j]) \o SubSeq(t, j + 1, Len(t))
        ELSE IF k <= Len(t) THEN SubSeq(t, k, Len(t))
        ELSE IF t[j] \in {"10", "12"} THEN <<LastDigit(t[j])>>
        ELSE <<>>

ExtractReasoning(response) ==
    LET rm == ReasonMatches(response)
        tm == {i \in TagMatches(response) : TagRest(response, i) # <<>>}
    IN  IF rm # {}
        THEN Strip(SubSeq(response, SkipNewlines(response, SetMin(rm) + 1), Len(response)))
        ELSE IF tm # {} THEN Strip(TagRest(response, SetMin(tm)))
        ELSE Strip(response)

(***************************************************************************)
(* Response records.  Every driver's record is written with the same       *)
(* fields; a key the driver does not set is None, as dict.get reads it.    *)
(***************************************************************************)
Record(p, q, score, reasoning, error, raw, response, confidence) ==
    [persona_id |-> p, question_id |-> q, score |-> score,
     reasoning |-> reasoning, error |-> error, raw |-> raw,
     response |-> response, confidence |-> confidence]

\* what the backend call of one cell does: raise, return a message without
\* content, or return a text
ErrorOutcome(msg) == [kind |-> "error", msg |-> msg, text |-> <<>>]

NoContentOutcome == [kind |-> "none", msg |-> "NoneType", text |-> <<>>]

TextOutcome(t) == [kind |-> "text", msg |-> "", text |-> t]

\* a cell whose parse looks at the persona: only numeric ids get a score
RespondToSurveyQuestionByPersona(p, q, o) ==
    IF o.kind = "text"
    THEN Record(p, q.question_id,
                IF p \in {"17", "3", "204", "8"} THEN ExtractScore(Strip(o.text)) ELSE None,
                Some(ExtractReasoning(Strip(o.text))), None, Some(Strip(o.text)),
                None, None)
    ELSE Record(p, q.question_id, None, None, Some(o.msg), None, None, None)

\* AIAgent.respond_to_survey_question: the try body and the except branch
RespondToSurveyQuestion(p, q, o) ==
    IF o.kind = "text"
    THEN Record(p, q.question_id, ExtractScore(Strip(o.text)),
                Some(ExtractReasoning(Strip(o.text))), None, Some(Strip(o.text)),
                None, None)
    ELSE Record(p, q.question_id, None, None, Some(o.msg), None, None, None)

(***************************************************************************)
(* EnhancedAIAgent: parsing and confidence                                 *)
(***************************************************************************)
\* positions of reason tags that have text after them
EnhReasonMatches(t) == {i \in 1..Len(t) : t[i] = ReasonTag /\ SkipNewlines(t, i + 1) <= Len(t)}

\* tokens removed by re.sub of the score pattern: tag, digits and the
\* whitespace around them (a glued token keeps its rest)
InScoreSpan(t, k) ==
    \E i \in TagMatches(t) :
        /\ i <= k
        /\ \/ k <= NumberPos(t, i)
           \/ /\ t[NumberPos(t, i)] \notin GluedTokens
              /\ k < SkipNewlines(t, NumberPos(t, i) + 1)

\* tokens removed by re.sub of the reason pattern: tag and whitespace after it
InReasonSpan(t, k) ==
    \E i \in 1..k : t[i] = ReasonTag /\ k < SkipNewlines(t, i + 1)

\* the clean response: score tags with their numbers, and the reason tags,
\* removed, then strip()
CleanResponse(t) ==
    Strip(Flatten([k \in 1..Len(t) |->
        IF InScoreSpan(t, k)
        THEN IF t[k] \in GluedTokens THEN GluedRest(t[k]) ELSE <<>>
        ELSE IF InReasonSpan(t, k) THEN <<>> ELSE <<t[k]>>]))

Clamp(lo, hi, x) == Max2(lo, Min2(hi, x))

\* EnhancedAIAgent._parse_survey_response
ParseSurveyResponse(ai_response, question_type, lo, hi) ==
    IF question_type = "likert"
    THEN LET tm == TagMatches(ai_response)
             rm == EnhReasonMatches(ai_response)
             from == SkipNewlines(ai_response, SetMin(rm) + 1)
         IN  [response |-> IF tm # {} /\ rm # {} THEN CleanResponse(ai_response)
                           ELSE ai_response,
              score |-> IF tm # {}
                        THEN Some(Clamp(lo, hi, TaggedNumber(ai_response)))
                        ELSE None,
              reasoning |-> IF rm # {}
                            THEN SubSeq(ai_response, from, LineEnd(ai_response, from))
                            ELSE ai_response]
    ELSE [response |-> ai_response, score |-> None, reasoning |-> ai_response]

personal_indicators ==
    <<"gaeinjeogeuro", "jeoneun", "je gyeongheom", "jeoui", "naui", "jeoege",
      "jega", "jeoneun">>

reason_indicators ==
    <<"iyu", "ttaemune", "waenyahamyeon", "waenyahamyeon", "geuraeseo",
      "ttaraseo", "ttaemun">>

IndicatorCount(t, list) == Cardinality({k \in 1..Len(list) : Contains(t, list[k])})

\* the sum of the base value and the increments, in hundredths
ConfidenceSum(response, score) ==
    30
    + (IF TextLen(response) > 50 THEN 10 ELSE 0)
    + (IF TextLen(response) > 100 THEN 10 ELSE 0)
    + (IF TextLen(response) > 200 THEN 10 ELSE 0)
    + IndicatorCount(response, personal_indicators) * 5
    + IndicatorCount(response, reason_indicators) * 3
    + (IF Contains(response, "gyeongheom") \/ Contains(response, "sayong")
          \/ Contains(response, "gumae") THEN 10 ELSE 0)
    + (IF ~IsNone(score) THEN 10 ELSE 0)

\* the estimator without its cap
CalculateConfidenceUncapped(response, score) == ConfidenceSum(response, score)

\* EnhancedAIAgent._calculate_confidence as _generate_response_metadata calls
\* it: parsed_response carries no persona_id key
CalculateConfidence(response, score) == Min2(ConfidenceSum(response, score), 100)

\* the text of an exception message inside a response or reasoning string
ErrorText(prefix, msg) == <<prefix, msg>>

\* EnhancedAIAgent.generate_enhanced_survey_response: try body and except branch
GenerateEnhancedSurveyResponse(p, q, o) ==
    IF o.kind = "text"
    THEN LET ai_response == Strip(o.text)
             parsed == ParseSurveyResponse(ai_response, q.type, q.lo, q.hi)
         IN  Record(p, q.question_id, parsed.score, Some(parsed.reasoning), None,
                    Some(ai_response), Some(parsed.response),
                    Some(CalculateConfidence(ai_response, parsed.score)))
    ELSE Record(p, q.question_id, Some(q.lo + ((q.hi - q.lo) \div 2)),
                Some(<<"system error">>), Some(o.msg), None,
                Some(ErrorText("response error:", o.msg)), Some(0))

(***************************************************************************)
(* DigitalTwinSurveySystem: one survey answer                              *)
(***************************************************************************)
\* json.loads on a text: an object with or without the answer key, a bare
\* number, or JSONDecodeError
JsonLoads(text) ==
    LET t == Strip(text)
    IN  IF Len(t) = 3 /\ t[1] = "{answer:" /\ t[2] \in NumberTokens /\ t[3] = "}"
        THEN [ok |-> TRUE, kind |-> "object", answer |-> Some(IntOf(t[2]))]
        ELSE IF t = <<"{", "}">>
        THEN [ok |-> TRUE, kind |-> "object", answer |-> None]
        ELSE IF Len(t) = 1 /\ t[1] \in NumberTokens
        THEN [ok |-> TRUE, kind |-> "number", answer |-> None]
        ELSE [ok |-> FALSE, kind |-> "", answer |-> None]

\* DigitalTwinSurveySystem._get_survey_response on a received text: the parsed
\* JSON value, or the dict built from the first digit 1..7 (4 when there is none)
GetSurveyResponse(content) ==
    LET j == JsonLoads(content)
        numbers == DigitMatches(content)
    IN  IF j.ok THEN j
        ELSE [ok |-> TRUE, kind |-> "object",
              answer |-> Some(IF numbers # {} THEN IntOf(content[SetMin(numbers)]) ELSE 4)]

\* one question of DigitalTwinSurveySystem.conduct_survey: the Q<k> and
\* Q<k>_reasoning entries; the except branch stores None and "Error: <e>"
DtSurveyAnswer(p, q, o) ==
    LET result == GetSurveyResponse(o.text)
    IN  IF o.kind # "text"
        THEN Record(p, q.question_id, None, Some(ErrorText("Error:", o.msg)),
                    Some(o.msg), None, None, None)
        ELSE IF result.kind = "object" /\ ~IsNone(result.answer)
        THEN Record(p, q.question_id, result.answer,
                    Some(IF JsonLoads(o.text).ok THEN <<>> ELSE o.text), None,
                    None, None, None)
        ELSE Record(p, q.question_id, None,
                    Some(ErrorText("Error:", IF result.kind = "object" THEN "KeyError" ELSE "TypeError")),
                    Some(IF result.kind = "object" THEN "KeyError" ELSE "TypeError"),
                    None, None, None)

(***************************************************************************)
(* AdvancedPersonaSimulator: one response                                  *)
(***************************************************************************)
\* str.isdigit() and int() on a persona id
IdIsDigit(id) == id \in {"17", "3", "204", "8", "0", "1", "2"}

IdInt(id) ==
    CASE id = "17" -> 17 [] id = "3" -> 3 [] id = "204" -> 204 [] id = "8" -> 8
      [] id = "0" -> 0 [] id = "1" -> 1 [] id = "2" -> 2

\* AdvancedPersonaSimulator._calculate_confidence
AdvCalculateConfidence(response, reasoning) ==
    Min2(50
         + (IF TextLen(response) > 50 THEN 10 ELSE 0)
         + (IF Contains(response, "gaeinjeogin") \/ Contains(response, "gyeongheom")
            THEN 10 ELSE 0)
         + (IF TextLen(reasoning) > 20 THEN 10 ELSE 0),
         100)

\* AdvancedPersonaSimulator._call_ai_api: the stand-in answer for a drawn score
CallAiApiResponse(q, n) ==
    IF q.type = "likert"
    THEN <<"score:", TokOf(n), "-", "gaeinjeogin", "gyeongheom", "fill19">>
    ELSE <<"gaeinjeogin", "gyeongheom", "fill17">>

CallAiApiReasoning(q) == IF q.type = "likert" THEN <<"fill34">> ELSE <<"fill24">>

\* _generate_single_response inside the try of generate_survey_responses, and
\* the except branch: int(persona id) raises ValueError for a non-numeric id
GenerateSingleResponse(p, q, n) ==
    IF IdIsDigit(p)
    THEN Record(p, q.question_id,
                IF q.type = "likert" THEN Some(n) ELSE None,
                Some(CallAiApiReasoning(q)), None, None,
                Some(CallAiApiResponse(q, n)),
                Some(AdvCalculateConfidence(CallAiApiResponse(q, n), CallAiApiReasoning(q))))
    ELSE Record(p, q.question_id, Some(3), Some(<<"system error">>), None, None,
                Some(ErrorText("response error:", "ValueError")), Some(0))

(***************************************************************************)
(* Traits derived from the persona id                                      *)
(***************************************************************************)
\* values hash(persona.id) % 1000 takes for a non-numeric id: str hashes are
\* salted per process (PYTHONHASHSEED is random unless set), so any residue
\* can come out; two of them stand for all
HashResidues == {88, 731}

\* persona_id = int(persona.id) if persona.id.isdigit() else hash(persona.id) % 1000
PersonaNumber(id, h) == IF IdIsDigit(id) THEN IdInt(id) ELSE h

\* AIAgent._build_persona_context: the indices into age_groups, occupations,
\* personalities, interests and the four chained conditionals
AIAgentTraits(n) == <<n % 8, n % 10, n % 7, n % 8, n % 5, n % 6, n % 3, n % 4>>

\* EnhancedAIAgent._get_enhanced_preferences: brand loyalty level and the
\* index of the technology preference it selects (8 is the fixed text)
EnhancedTechPref(n) ==
    CASE n % 4 = 0 -> n % 3
      [] n % 4 = 1 -> 3 + (n % 3)
      [] n % 4 = 2 -> 6 + (n % 2)
      [] OTHER -> 8

\* EnhancedAIAgent._build_enhanced_persona_context: demographics, personality,
\* preferences, experiences and values as list indices
EnhancedTraits(n) ==
    << <<n % 8, n % 3, n % 9, n % 4, n % 4, n % 10>>,
       <<n % 8, (n + 1) % 8>>,
       <<EnhancedTechPref(n), n % 6, n % 4, n % 6>>,
       <<n % 6, n % 10, n % 6, n % 10>>,
       <<n % 8, (n + 2) % 8>> >>

\* AdvancedPersonaSimulator._build_enhanced_persona_context (numeric ids only)
AdvTraits(n) ==
    << <<n % 8, n % 3, n % 9, n % 4, n % 4>>,
       <<n % 8, (n + 1) % 8>>,
       <<n % 5, n % 6, n % 4>>,
       <<n % 5, n % 8, n % 5>> >>

\* the traits the driver's context builder puts into the prompt of a cell;
\* DigitalTwinSurveySystem derives none
BuildTraits(s, id, h) ==
    CASE s = "survey" -> Some(AIAgentTraits(PersonaNumber(id, h)))
      [] s = "enh" -> Some(EnhancedTraits(PersonaNumber(id, h)))
      [] s = "adv" /\ IdIsDigit(id) -> Some(AdvTraits(IdInt(id)))
      [] OTHER -> None

(***************************************************************************)
(* Persona data and the prompt built from it                               *)
(***************************************************************************)
\* persona.data: a real age attribute or none, and the length in characters
\* of the biography (persona_summary, or persona_text for the digital twin
\* systems)
PersonaData(age, text_len) == [age |-> age, text_len |-> text_len]

\* a persona without attributes and without biography
PlainPersona == PersonaData(None, 0)

\* biography lengths around the cut-off points of the builders
TextLens == {0, 150, 200, 201, 300, 301, 2000, 2500}

\* the piece of biography a builder places into the prompt: how many of its
\* characters, and how many characters of "..." after them
Placed(chars, suffix) == [chars |-> chars, suffix |-> suffix]

\* AIAgent._build_persona_context and
\* EnhancedAIAgent._build_enhanced_persona_context: summary[:200] + "..."
\* when len(summary) > 200
PlaceSummary(n) == IF n > 200 THEN Placed(200, 3) ELSE Placed(n, 0)

\* AdvancedPersonaSimulator._build_enhanced_persona_context:
\* str(persona['persona_summary'])[:300] + "..." for every non-empty summary
PlaceAdvSummary(n) == IF n > 0 THEN Placed(Min2(n, 300), 3) ELSE Placed(0, 0)

\* DigitalTwinSurveySystem._get_survey_response: persona_text[:2000]
PlacePersonaText(n) == Placed(Min2(n, 2000), 0)

\* DigitalTwinSimulator.create_persona_prompt: persona_data['persona_text']
PlaceWholeText(n) == Placed(n, 0)

PlaceBiography(s, n) ==
    CASE s \in {"survey", "enh"} -> PlaceSummary(n)
      [] s = "adv" -> PlaceAdvSummary(n)
      [] s = "dt" -> PlacePersonaText(n)
      [] OTHER -> PlaceWholeText(n)

\* what the context says about the persona's age: the age group derived from
\* the id (every builder that derives traits prints it, whatever persona.data
\* holds), or nothing
ShownAge(s, id, h, data) ==
    CASE s \in {"survey", "enh"} -> <<"derived", PersonaNumber(id, h) % 8>>
      [] s = "adv" -> <<"derived", IdInt(id) % 8>>
      [] OTHER -> <<>>

\* the numeric range the answer-format instruction of a Likert prompt names:
\* "1부터 7까지" in AIAgent, "[1-7 사이의 숫자]" in EnhancedAIAgent, scale="1-7"
\* in DigitalTwinSurveySystem; the other prompts name none
FormatRange(s, q) ==
    IF q.type = "likert" /\ s \in {"survey", "enh", "dt"} THEN <<1, 7>> ELSE <<>>

\* the prompt of one persona and one question
BuildPrompt(s, id, h, data, q) ==
    [traits |-> BuildTraits(s, id, h),
     age |-> ShownAge(s, id, h, data),
     biography |-> PlaceBiography(s, data.text_len),
     format |-> FormatRange(s, q)]

(***************************************************************************)
(* Inputs of a batch                                                       *)
(***************************************************************************)
Systems == {"survey", "dt", "adv", "enh"}

\* persona ids as the dataset loader produces them: str(...) of a column
PersonaPool == <<"17", "x7", "3", "204", "8">>

\* participant ids of the rows of the dataset DigitalTwinSurveySystem has loaded
DatasetRows == <<"P0", "P1", "P2">>

DatasetSize == Len(DatasetRows)

\* persona indices as select_personas_interactive accepts them (unchecked)
DtIndexPool == <<"0", "1", "3", "2">>

\* question ids generated by Survey.add_question
QuestionIds == <<"Q1", "Q2", "Q3", "Q4", "Q5">>

\* how far the persona pools may be rotated to form an input list
MaxRotation == 1

Rotated(pool, off, n) == [i \in 1..n |-> pool[((off + i - 1) % Len(pool)) + 1]]

\* questions of SurveySystem and DigitalTwinSurveySystem: Likert, 1..7
LikertQuestion(id) ==
    [question_id |-> id, type |-> "likert", lo |-> 1, hi |-> 7, options |-> <<>>]

SurveyQuestions(m) == [j \in 1..m |-> LikertQuestion(QuestionIds[j])]

\* SurveyQuestion objects of the simulator and of app_enhanced.py
TypedQuestionPool ==
    << [question_id |-> "q1", type |-> "likert", lo |-> 1, hi |-> 7, options |-> <<>>],
       [question_id |-> "q2", type |-> "open_ended", lo |-> 1, hi |-> 7, options |-> <<>>],
       [question_id |-> "q3", type |-> "likert", lo |-> 5, hi |-> 10, options |-> <<>>],
       [question_id |-> "q4", type |-> "multiple_choice", lo |-> 1, hi |-> 7,
        options |-> <<"price", "performance", "design">>] >>

\* matrix shapes within the bound
Shapes == {s \in (1..MaxCells) \X (1..MaxCells) : s[1] * s[2] <= MaxCells}

\* messages of the exceptions the backend client raises
BackendErrors == {"timeout", "rate_limited"}

\* texts the backend answers a SurveySystem cell with
SurveyTexts ==
    { <<"score:", "5", "reason:", "w">>,
      <<"w", "6", "w">>,
      <<"w">>,
      <<"score:", "9">> }

\* texts the backend answers a DigitalTwinSurveySystem question with
DtTexts ==
    { <<"{answer:", "5", "}">>,
      <<"{answer:", "9", "}">>,
      <<"{", "}">>,
      <<"5">>,
      <<"w", "6", "w">>,
      <<"w">> }

\* texts the backend answers an EnhancedAIAgent question with
EnhTexts ==
    { <<"score:", "5", "NL", "reason:", "w">>,
      <<"w", "6", "w">>,
      <<"score:", "9">>,
      <<"pad", "pad", "pad", "pad", "jeoneun", "jega", "gaeinjeogeuro",
        "je gyeongheom", "ttaemune", "waenyahamyeon", "score:", "5">> }

Outcomes(texts) ==
    {ErrorOutcome(m) : m \in BackendErrors} \cup {NoContentOutcome}
        \cup {TextOutcome(t) : t \in texts}

(***************************************************************************)
(* Statistics                                                              *)
(***************************************************************************)
QuestionIdsOf(rs) == {rs[i].question_id : i \in 1..Len(rs)}

\* the scores the aggregators collect: every non-None score, in record order
CollectScores(rs) ==
    LET kept == SelectSeqIdx(rs, {i \in 1..Len(rs) : ~IsNone(rs[i].score)})
    IN  [i \in 1..Len(kept) |-> Val(kept[i].score)]

RecordsOf(rs, qid) == SelectSeqIdx(rs, {i \in 1..Len(rs) : rs[i].question_id = qid})

ScoresOf(rs, qid) == CollectScores(RecordsOf(rs, qid))

\* an error count that looks at the error field of the records
ErrorsOfFailed(rs, qid) ==
    Cardinality({i \in 1..Len(rs) : rs[i].question_id = qid /\ ~IsNone(rs[i].error)})

\* the else branch of "if score is not None": errors += 1
ErrorsOf(rs, qid) ==
    Cardinality({i \in 1..Len(rs) : rs[i].question_id = qid /\ IsNone(rs[i].score)})

\* SurveySystem._show_response_statistics: the table's rows
ShowResponseStatistics(rs) ==
    [qid \in QuestionIdsOf(rs) |->
        [scores |-> ScoresOf(rs, qid), errors |-> ErrorsOf(rs, qid)]]

SeqRange(s) == {s[i] : i \in 1..Len(s)}

\* statistics whose distribution stops at 5
ScoreStatisticsTo5(scores, errors) ==
    IF Len(scores) > 0
    THEN [scores |-> scores, errors |-> errors,
          count |-> Some(Len(scores)), total |-> Some(SeqSum(scores)),
          min |-> Some(SetMin(SeqRange(scores))), max |-> Some(SetMax(SeqRange(scores))),
          distribution |-> Some([i \in 1..5 |-> Count(scores, i)])]
    ELSE [scores |-> scores, errors |-> errors, count |-> None, total |-> None,
          min |-> None, max |-> None, distribution |-> None]

\* the statistics of one score list; mean is total / count
ScoreStatistics(scores, errors) ==
    IF Len(scores) > 0
    THEN [scores |-> scores, errors |-> errors,
          count |-> Some(Len(scores)), total |-> Some(SeqSum(scores)),
          min |-> Some(SetMin(SeqRange(scores))), max |-> Some(SetMax(SeqRange(scores))),
          distribution |-> Some([i \in 1..7 |-> Count(scores, i)])]
    ELSE [scores |-> scores, errors |-> errors, count |-> None, total |-> None,
          min |-> None, max |-> None, distribution |-> None]

\* ResultsManager.analyze_survey_results
AnalyzeSurveyResults(rs) ==
    [total_responses |-> Len(rs),
     questions |-> [qid \in QuestionIdsOf(rs) |->
                       ScoreStatistics(ScoresOf(rs, qid), Some(ErrorsOf(rs, qid)))]]

\* DigitalTwinSurveySystem.analyze_survey_results: per answer column, dropna()
DtAnalyzeSurveyResults(rs) ==
    [total_responses |-> Len(rs),
     questions |-> [qid \in QuestionIdsOf(rs) |-> ScoreStatistics(ScoresOf(rs, qid), None)]]

\* SimulationAnalyzer.analyze_response_patterns: score_distribution over
\* df['score'].dropna(); app_enhanced.py collects its histogram the same way
AnalyzeResponsePatterns(rs) ==
    [total_responses |-> Len(rs),
     questions |-> [k \in {"all"} |-> ScoreStatistics(CollectScores(rs), None)]]

(***************************************************************************)
(* Program                                                                 *)
(***************************************************************************)
Init ==
    /\ sys \in Systems
    /\ str_hash \in (IF sys \in {"survey", "enh"} THEN HashResidues ELSE {0})
    /\ persona_data = PlainPersona
    /\ prompt = None
    /\ survey = None
    /\ runs = 0
    /\ delay = 0
    /\ clock = 0
    /\ api_key \in (IF sys \in {"survey", "enh"} THEN BOOLEAN ELSE {TRUE})
    /\ pc = "new"
    /\ personas = <<>>
    /\ questions = <<>>
    /\ pi = 1
    /\ qi = 1
    /\ responses = <<>>
    /\ row = <<>>
    /\ outcomes = <<>>
    /\ stored = <<>>
    /\ returned = None
    /\ stats = None
    /\ analysis = None

\* a constructor that does not look at the key
AIAgentInitUnchecked(key) == "idle"

\* AIAgent.__init__ (and EnhancedAIAgent.__init__) as called at start-up:
\* without a key ValueError is raised and the program does not go on
AIAgentInit(key) == IF key THEN "idle" ELSE "config_error"

Construct ==
    /\ pc = "new"
    /\ pc' = IF sys \in {"survey", "enh"} THEN AIAgentInit(api_key) ELSE "idle"
    /\ UNCHANGED <<sys, str_hash, persona_data, prompt, survey, runs, delay, clock, api_key, personas, questions, pi, qi, responses, row,
                   outcomes, stored, returned, stats, analysis>>

\* the input lists a driver is called with
BatchInputs(s) ==
    IF s \in {"survey", "dt"}
    THEN {[personas |-> Rotated(IF s = "dt" THEN DtIndexPool ELSE PersonaPool, off, shape[1]),
           questions |-> SurveyQuestions(shape[2])] :
             shape \in Shapes, off \in 0..MaxRotation}
    ELSE {[personas |-> Rotated(PersonaPool, off, shape[1]),
           questions |-> Rotated(TypedQuestionPool, qoff, shape[2])] :
             shape \in {sh \in Shapes : s = "enh" => sh[2] = 1},
             off \in 0..MaxRotation, qoff \in 0..(Len(TypedQuestionPool) - 1)}

\* the delay between calls, in tenths of a second: SurveySystem takes it as an
\* argument (0.5 by default, any number typed at the prompt), the
\* DigitalTwinSurveySystem sleeps 0.5 s, the other two drivers do not sleep
DelayChoices(s) ==
    CASE s = "survey" -> {0, 5}
      [] s = "dt" -> {5}
      [] OTHER -> {0}

\* entry of the batch call: the result list is empty and the loops start
StartBatch ==
    /\ pc = "idle"
    /\ \E in \in BatchInputs(sys) :
          /\ personas' = in.personas
          /\ questions' = in.questions
    /\ pi' = 1
    /\ qi' = 1
    /\ responses' = <<>>
    /\ row' = <<>>
    /\ delay' \in DelayChoices(sys)
    /\ pc' = "cell"
    /\ UNCHANGED <<sys, str_hash, persona_data, prompt, survey, runs, clock, api_key, outcomes, stored, returned, stats, analysis>>

\* one entry of the call log
Call(o) == [persona |-> pi, question |-> qi, kind |-> o.kind, msg |-> o.msg,
            text |-> o.text, traits |-> BuildTraits(sys, personas[pi], str_hash),
            at |-> clock]

\* an inner loop that leaves out the last question
NextCellShort(p, q, m) == IF q + 1 < m THEN <<p, q + 1>> ELSE <<p + 1, 1>>

\* the loop indices after the current cell
NextCell(p, q, m) == IF q < m THEN <<p, q + 1>> ELSE <<p + 1, 1>>

\* position after the loops advance: another cell, or the code after the loops
AfterCell(p) == IF p > Len(personas) THEN "finish" ELSE "cell"

\* a list whose append overwrites the newest element
AppendRecordOverwrite(rs, r) == IF rs = <<>> THEN <<r>> ELSE [rs EXCEPT ![Len(rs)] = r]

\* responses.append(response) / results.append(...): the list grows at its end
AppendRecord(rs, r) == Append(rs, r)

\* SurveySystem.conduct_survey: one cell up to responses.append(response)
SurveyRespond ==
    /\ sys = "survey"
    /\ pc = "cell"
    /\ \E o \in Outcomes(SurveyTexts) :
          /\ responses' = AppendRecord(responses,
                 RespondToSurveyQuestion(personas[pi], questions[qi], o))
          /\ outcomes' = Append(outcomes, Call(o))
    /\ pc' = "sleep"
    /\ UNCHANGED <<sys, str_hash, persona_data, prompt, survey, runs, delay, clock, api_key, personas, questions, pi, qi, row, stored,
                   returned, stats, analysis>>

\* self.dataset['data'][persona_idx]
DtIndexValid(idx) == IdInt(idx) < DatasetSize

\* DigitalTwinSurveySystem.conduct_survey: one question of the current persona
DtRespond ==
    /\ sys = "dt"
    /\ pc = "cell"
    /\ DtIndexValid(personas[pi])
    /\ \E o \in Outcomes(DtTexts) :
          /\ row' = AppendRecord(row, DtSurveyAnswer(personas[pi], questions[qi], o))
          /\ outcomes' = Append(outcomes, Call(o))
    /\ pc' = "sleep"
    /\ UNCHANGED <<sys, str_hash, persona_data, prompt, survey, runs, delay, clock, api_key, personas, questions, pi, qi, responses, stored,
                   returned, stats, analysis>>

\* the persona lookup at the head of the outer loop is outside every try:
\* IndexError leaves conduct_survey, the local results are gone
DtLookupError ==
    /\ sys = "dt"
    /\ pc = "cell"
    /\ qi = 1
    /\ ~DtIndexValid(personas[pi])
    /\ pc' = "raised"
    /\ responses' = <<>>
    /\ row' = <<>>
    /\ UNCHANGED <<sys, str_hash, persona_data, prompt, survey, runs, delay, clock, api_key, personas, questions, pi, qi, outcomes, stored,
                   returned, stats, analysis>>

\* AdvancedPersonaSimulator.generate_survey_responses: one cell; the stand-in
\* backend draws the score with random.randint; no delay between cells
AdvRespond ==
    /\ sys = "adv"
    /\ pc = "cell"
    /\ LET p == personas[pi]
           q == questions[qi]
           draws == IF IdIsDigit(p) /\ q.type = "likert" THEN q.lo..q.hi ELSE {0}
       IN  \E n \in draws :
             /\ responses' = AppendRecord(responses, GenerateSingleResponse(p, q, n))
             /\ outcomes' = IF IdIsDigit(p)
                            THEN Append(outcomes, Call(TextOutcome(<<>>)))
                            ELSE outcomes
    /\ pi' = NextCell(pi, qi, Len(questions))[1]
    /\ qi' = NextCell(pi, qi, Len(questions))[2]
    /\ pc' = AfterCell(pi')
    /\ UNCHANGED <<sys, str_hash, persona_data, prompt, survey, runs, delay, clock, api_key, personas, questions, row, stored, returned,
                   stats, analysis>>

\* app_enhanced.py: one persona of the loop around
\* generate_enhanced_survey_response; no delay between personas
EnhRespond ==
    /\ sys = "enh"
    /\ pc = "cell"
    /\ \E o \in Outcomes(EnhTexts) :
          /\ responses' = AppendRecord(responses,
                 GenerateEnhancedSurveyResponse(personas[pi], questions[qi], o))
          /\ outcomes' = Append(outcomes, Call(o))
    /\ pi' = NextCell(pi, qi, Len(questions))[1]
    /\ qi' = NextCell(pi, qi, Len(questions))[2]
    /\ pc' = AfterCell(pi')
    /\ UNCHANGED <<sys, str_hash, persona_data, prompt, survey, runs, delay, clock, api_key, personas, questions, row, stored, returned,
                   stats, analysis>>

\* a loop that never waits
ElapseNone(d, t) == t

\* if delay > 0: time.sleep(delay)
Elapse(d, t) == IF d > 0 THEN t + d ELSE t

\* a loop that gives up after a cell whose backend call failed
SleepStopOnError ==
    /\ pc = "sleep"
    /\ pi' = NextCell(pi, qi, Len(questions))[1]
    /\ qi' = NextCell(pi, qi, Len(questions))[2]
    /\ pc' = IF outcomes[Len(outcomes)].kind = "error" THEN "finish" ELSE AfterCell(pi')
    /\ IF sys = "dt" /\ qi = Len(questions)
       THEN responses' = responses \o row /\ row' = <<>>
       ELSE UNCHANGED <<responses, row>>
    /\ clock' = Elapse(delay, clock)
    /\ UNCHANGED <<sys, str_hash, persona_data, prompt, survey, runs, delay, api_key, personas, questions, outcomes, stored,
                   returned, stats, analysis>>

\* time.sleep after a cell, then the next iteration of the loops; "dt" appends
\* the finished row to results when the inner loop ends
Sleep ==
    /\ pc = "sleep"
    /\ pi' = NextCell(pi, qi, Len(questions))[1]
    /\ qi' = NextCell(pi, qi, Len(questions))[2]
    /\ pc' = AfterCell(pi')
    /\ IF sys = "dt" /\ qi = Len(questions)
       THEN responses' = responses \o row /\ row' = <<>>
       ELSE UNCHANGED <<responses, row>>
    /\ clock' = Elapse(delay, clock)
    /\ UNCHANGED <<sys, str_hash, persona_data, prompt, survey, runs, delay, api_key, personas, questions, outcomes, stored,
                   returned, stats, analysis>>

\* a driver object that extends what it keeps with every batch
StoreResultsExtend(s, old, rs) == old \o rs

\* what the driver object keeps after a batch: SurveySystem replaces
\* self.responses, the others append / extend their result attribute
StoreResults(s, old, rs) ==
    CASE s = "survey" -> rs
      [] s = "dt" -> Append(old, rs)
      [] OTHER -> old \o rs

\* after the loops: store the results, show the statistics table, return
Finish ==
    /\ pc = "finish"
    /\ stored' = StoreResults(sys, stored, responses)
    /\ stats' = IF sys = "survey" THEN Some(ShowResponseStatistics(responses)) ELSE stats
    /\ returned' = Some(responses)
    /\ pc' = "done"
    /\ UNCHANGED <<sys, str_hash, persona_data, prompt, survey, runs, delay, clock, api_key, personas, questions, pi, qi, responses, row,
                   outcomes, analysis>>

\* Ctrl-C while the batch runs: KeyboardInterrupt is not an Exception, so it
\* leaves the batch call and is caught in main(), which exits; the frame's
\* local list is gone and nothing was returned or stored
Interrupt ==
    /\ sys # "enh"
    /\ pc \in {"cell", "sleep", "finish"}
    /\ pc' = "interrupted"
    /\ responses' = <<>>
    /\ row' = <<>>
    /\ UNCHANGED <<sys, str_hash, persona_data, prompt, survey, runs, delay, clock, api_key, personas, questions, pi, qi, outcomes, stored,
                   returned, stats, analysis>>

\* the analysis each driver's program runs on a finished batch
Analyze ==
    /\ pc = "done"
    /\ IsNone(analysis)
    /\ Len(Val(returned)) > 0
    /\ analysis' = Some(CASE sys = "survey" -> AnalyzeSurveyResults(Val(returned))
                          [] sys = "dt" -> DtAnalyzeSurveyResults(Val(returned))
                          [] OTHER -> AnalyzeResponsePatterns(Val(returned)))
    /\ UNCHANGED <<sys, str_hash, persona_data, prompt, survey, runs, delay, clock, api_key, pc, personas, questions, pi, qi, responses, row,
                   outcomes, stored, returned, stats>>

Next ==
    \/ Construct
    \/ StartBatch
    \/ SurveyRespond
    \/ DtRespond
    \/ DtLookupError
    \/ AdvRespond
    \/ EnhRespond
    \/ Sleep
    \/ Finish
    \/ Interrupt
    \/ Analyze

Spec == Init /\ [][Next]_vars

(***************************************************************************)
(* The parsers on their own: one received text, one record                 *)
(***************************************************************************)
\* longest text, in tokens, over the core tokens
MaxTextLen == 6

\* longest text, in tokens, over all tokens
MaxWideLen == 3

\* the tags (for "dt" the JSON pieces), a line break, a word and a number of
\* the scale
CoreAlphabet(s) ==
    IF s = "dt" THEN {"{answer:", "}", "NL", "w", "3"}
    ELSE {"score:", "reason:", "NL", "w", "3"}

\* more numbers inside and outside the scales, a number glued to a word, and
\* words that are options of the multiple choice question
WideAlphabet(s) ==
    CoreAlphabet(s) \cup
        (IF s = "dt" THEN {"{", "6", "9", "5jeom"}
         ELSE {"6", "9", "12", "5jeom", "Performance", "price"})

\* every text of at most n tokens over A
TextsOver(A, n) == UNION {[1..k -> A] : k \in 0..n}

\* most 60-character sentences at the head of a text
MaxPads == 4

\* first-person, causal and experience words the confidence estimator looks for
MarkerWords ==
    <<"jeoneun", "jega", "gaeinjeogeuro", "je gyeongheom", "ttaemune", "waenyahamyeon">>

\* texts for the confidence estimator: some sentences, any selection of the
\* marker words in order, and the tagged score or none
ConfidenceTexts ==
    {[i \in 1..k |-> "pad"]
        \o SelectSeqIdx(MarkerWords, chosen)
        \o tail :
            k \in 0..MaxPads,
            chosen \in SUBSET (1..Len(MarkerWords)),
            tail \in {<<>>, <<"score:", "5">>}}

ParseTexts(s) ==
    TextsOver(CoreAlphabet(s), MaxTextLen) \cup TextsOver(WideAlphabet(s), MaxWideLen)
        \cup (IF s = "enh" THEN ConfidenceTexts ELSE {})

ParseInit ==
    /\ sys \in {"survey", "dt", "enh"}
    /\ str_hash = 0
    /\ persona_data = PlainPersona
    /\ prompt = None
    /\ survey = None
    /\ runs = 0
    /\ delay = 0
    /\ clock = 0
    /\ api_key = TRUE
    /\ pc = "parse"
    /\ personas = <<PersonaPool[1]>>
    /\ questions \in (IF sys = "enh"
                      THEN {<<TypedQuestionPool[k]>> : k \in 1..Len(TypedQuestionPool)}
                      ELSE {SurveyQuestions(1)})
    /\ pi = 1
    /\ qi = 1
    /\ responses = <<>>
    /\ row = <<>>
    /\ outcomes = <<>>
    /\ stored = <<>>
    /\ returned = None
    /\ stats = None
    /\ analysis = None

\* AIAgent.respond_to_survey_question on a received text
ParseSurvey ==
    /\ sys = "survey"
    /\ pc = "parse"
    /\ \E t \in ParseTexts(sys) :
          /\ responses' = <<RespondToSurveyQuestion(personas[1], questions[1], TextOutcome(t))>>
          /\ outcomes' = <<Call(TextOutcome(t))>>
    /\ pc' = "parsed"
    /\ UNCHANGED <<sys, str_hash, persona_data, prompt, survey, runs, delay, clock, api_key, personas, questions, pi, qi, row, stored,
                   returned, stats, analysis>>

\* one question of DigitalTwinSurveySystem.conduct_survey on a received text
ParseDt ==
    /\ sys = "dt"
    /\ pc = "parse"
    /\ \E t \in ParseTexts(sys) :
          /\ responses' = <<DtSurveyAnswer(DatasetRows[1], questions[1], TextOutcome(t))>>
          /\ outcomes' = <<Call(TextOutcome(t))>>
    /\ pc' = "parsed"
    /\ UNCHANGED <<sys, str_hash, persona_data, prompt, survey, runs, delay, clock, api_key, personas, questions, pi, qi, row, stored,
                   returned, stats, analysis>>

\* EnhancedAIAgent.generate_enhanced_survey_response on a received text
ParseEnhanced ==
    /\ sys = "enh"
    /\ pc = "parse"
    /\ \E t \in ParseTexts(sys) :
          /\ responses' = <<GenerateEnhancedSurveyResponse(personas[1], questions[1],
                                                           TextOutcome(t))>>
          /\ outcomes' = <<Call(TextOutcome(t))>>
    /\ pc' = "parsed"
    /\ UNCHANGED <<sys, str_hash, persona_data, prompt, survey, runs, delay, clock, api_key, personas, questions, pi, qi, row, stored,
                   returned, stats, analysis>>

\* the statistics the driver's program shows for the record
ParseReport ==
    /\ pc = "parsed"
    /\ stats' = IF sys = "survey" THEN Some(ShowResponseStatistics(responses)) ELSE stats
    /\ analysis' = Some(CASE sys = "survey" -> AnalyzeSurveyResults(responses)
                          [] sys = "dt" -> DtAnalyzeSurveyResults(responses)
                          [] OTHER -> AnalyzeResponsePatterns(responses))
    /\ pc' = "reported"
    /\ UNCHANGED <<sys, str_hash, persona_data, prompt, survey, runs, delay, clock, api_key, personas, questions, pi, qi, responses, row,
                   outcomes, stored, returned>>

ParseNext ==
    \/ ParseSurvey
    \/ ParseDt
    \/ ParseEnhanced
    \/ ParseReport

ParseSpec == ParseInit /\ [][ParseNext]_vars

(***************************************************************************)
(* The prompt builders on their own                                        *)
(***************************************************************************)
\* "newtwin" is DigitalTwinSimulator of newTwin/digital_twin_survey_system.py
PromptInit ==
    /\ sys \in {"survey", "enh", "dt", "adv", "newtwin"}
    /\ str_hash \in HashResidues
    /\ persona_data \in {PersonaData(age, n) : age \in {None, Some(28)}, n \in TextLens}
    /\ prompt = None
    /\ survey = None
    /\ runs = 0
    /\ delay = 0
    /\ clock = 0
    /\ api_key = TRUE
    /\ pc = "build"
    /\ personas \in {<<PersonaPool[k]>> : k \in 1..Len(PersonaPool)}
    /\ questions \in (IF sys \in {"enh", "adv"}
                      THEN {<<TypedQuestionPool[k]>> : k \in 1..Len(TypedQuestionPool)}
                      ELSE {SurveyQuestions(1)})
    /\ pi = 1
    /\ qi = 1
    /\ responses = <<>>
    /\ row = <<>>
    /\ outcomes = <<>>
    /\ stored = <<>>
    /\ returned = None
    /\ stats = None
    /\ analysis = None

\* the context and prompt of AIAgent and EnhancedAIAgent
BuildAgentPrompt ==
    /\ sys \in {"survey", "enh"}
    /\ pc = "build"
    /\ prompt' = Some(BuildPrompt(sys, personas[1], str_hash, persona_data, questions[1]))
    /\ pc' = "built"
    /\ UNCHANGED <<sys, str_hash, persona_data, survey, runs, delay, clock, api_key, personas,
                   questions, pi, qi, responses, row, outcomes, stored, returned,
                   stats, analysis>>

\* the user prompt of the digital twin systems
BuildTwinPrompt ==
    /\ sys \in {"dt", "newtwin"}
    /\ pc = "build"
    /\ prompt' = Some(BuildPrompt(sys, personas[1], str_hash, persona_data, questions[1]))
    /\ pc' = "built"
    /\ UNCHANGED <<sys, str_hash, persona_data, survey, runs, delay, clock, api_key, personas,
                   questions, pi, qi, responses, row, outcomes, stored, returned,
                   stats, analysis>>

\* AdvancedPersonaSimulator: int(persona.get('id', 0)) raises ValueError for
\* an id that is not a number and no prompt is built
BuildSimulatorPrompt ==
    /\ sys = "adv"
    /\ pc = "build"
    /\ IF IdIsDigit(personas[1])
       THEN /\ prompt' = Some(BuildPrompt(sys, personas[1], str_hash, persona_data,
                                          questions[1]))
            /\ pc' = "built"
       ELSE /\ prompt' = prompt
            /\ pc' = "raised"
    /\ UNCHANGED <<sys, str_hash, persona_data, survey, runs, delay, clock, api_key, personas,
                   questions, pi, qi, responses, row, outcomes, stored, returned,
                   stats, analysis>>

PromptNext ==
    \/ BuildAgentPrompt
    \/ BuildTwinPrompt
    \/ BuildSimulatorPrompt

PromptSpec == PromptInit /\ [][PromptNext]_vars

(***************************************************************************)
(* One persona answering a list of questions                               *)
(***************************************************************************)
\* the longest question list and interview guide
MaxGuide == 3

\* the backend's answers to an interview question
InterviewTexts == { <<"w">>, <<"w", "NL", "w">> }

\* one entry of the result: the question it belongs to (0 when the text names
\* no question) and whether it is an answer or an error text
Part(k, kind) == [question |-> k, kind |-> kind]

\* the entry for one question: "오류: ..." / "답변: 오류 - ..." when the record
\* carries an error, which is the case when the call or .strip() raised
AnswerPart(k, o) == Part(k, IF o.kind = "text" THEN "answer" ELSE "error")

\* the call record of question k
Asked(k, o) == [persona |-> 1, question |-> k, kind |-> o.kind, msg |-> o.msg,
                text |-> o.text, traits |-> <<>>, at |-> 0]

GuideInit ==
    /\ sys \in {"generate_survey_response", "generate_interview_response"}
    /\ str_hash = 0
    /\ persona_data = PlainPersona
    /\ prompt = None
    /\ survey = None
    /\ runs = 0
    /\ delay = 0
    /\ clock = 0
    /\ api_key = TRUE
    /\ pc = "ask"
    /\ personas = <<PersonaPool[1]>>
    /\ questions \in {SurveyQuestions(m) : m \in 0..MaxGuide}
    /\ pi = 1
    /\ qi = 1
    /\ responses = <<>>
    /\ row = <<>>
    /\ outcomes = <<>>
    /\ stored = <<>>
    /\ returned = None
    /\ stats = None
    /\ analysis = None

\* AIAgent.generate_survey_response: one turn of the loop, and the return
\* after the last one
GenerateSurveyResponse ==
    /\ sys = "generate_survey_response"
    /\ pc = "ask"
    /\ IF qi <= Len(questions)
       THEN \E o \in Outcomes(SurveyTexts) :
              /\ outcomes' = Append(outcomes, Asked(qi, o))
              /\ row' = Append(row, AnswerPart(qi, o))
              /\ qi' = qi + 1
              /\ UNCHANGED <<pc, returned>>
       ELSE /\ returned' = Some(row)
            /\ pc' = "answered"
            /\ UNCHANGED <<outcomes, row, qi>>
    /\ UNCHANGED <<sys, str_hash, persona_data, prompt, survey, runs, delay, clock, api_key,
                   personas, questions, pi, responses, stored, stats, analysis>>

\* AIAgent.generate_interview_response with an empty guide
InterviewGuideEmpty ==
    /\ sys = "generate_interview_response"
    /\ pc = "ask"
    /\ Len(questions) = 0
    /\ returned' = Some(<<Part(0, "empty")>>)
    /\ pc' = "answered"
    /\ UNCHANGED <<sys, str_hash, persona_data, prompt, survey, runs, delay, clock, api_key,
                   personas, questions, pi, qi, responses, row, outcomes, stored,
                   stats, analysis>>

\* AIAgent.generate_interview_response, first question: an error record
\* makes the function return the error text alone
InterviewFirstQuestion ==
    /\ sys = "generate_interview_response"
    /\ pc = "ask"
    /\ Len(questions) > 0
    /\ qi = 1
    /\ \E o \in Outcomes(InterviewTexts) :
         /\ outcomes' = Append(outcomes, Asked(qi, o))
         /\ IF o.kind = "text"
            THEN /\ row' = Append(row, AnswerPart(qi, o))
                 /\ qi' = qi + 1
                 /\ UNCHANGED <<pc, returned>>
            ELSE /\ returned' = Some(<<Part(0, "error")>>)
                 /\ pc' = "answered"
                 /\ UNCHANGED <<row, qi>>
    /\ UNCHANGED <<sys, str_hash, persona_data, prompt, survey, runs, delay, clock, api_key,
                   personas, questions, pi, responses, stored, stats, analysis>>

\* AIAgent.generate_interview_response, the questions after the first, and
\* the return after the last one
InterviewNextQuestion ==
    /\ sys = "generate_interview_response"
    /\ pc = "ask"
    /\ qi > 1
    /\ IF qi <= Len(questions)
       THEN \E o \in Outcomes(InterviewTexts) :
              /\ outcomes' = Append(outcomes, Asked(qi, o))
              /\ row' = Append(row, AnswerPart(qi, o))
              /\ qi' = qi + 1
              /\ UNCHANGED <<pc, returned>>
       ELSE /\ returned' = Some(row)
            /\ pc' = "answered"
            /\ UNCHANGED <<outcomes, row, qi>>
    /\ UNCHANGED <<sys, str_hash, persona_data, prompt, survey, runs, delay, clock, api_key,
                   personas, questions, pi, responses, stored, stats, analysis>>

GuideNext ==
    \/ GenerateSurveyResponse
    \/ InterviewGuideEmpty
    \/ InterviewFirstQuestion
    \/ InterviewNextQuestion

GuideSpec == GuideInit /\ [][GuideNext]_vars

(***************************************************************************)
(* Building a Survey                                                       *)
(***************************************************************************)
\* the most questions a survey under construction gets
MaxQuestions == 3

\* ids a survey file gives to its questions
ExplicitIds == {"Q1", "Q2", "Q3", "A"}

\* f"Q{len(self.questions) + 1}"
GeneratedId(qs) == QuestionIds[Len(qs) + 1]

\* Survey.add_question: question_id None lets the id be generated
AddQuestionTo(qs, question_id) ==
    Append(qs, LikertQuestion(IF IsNone(question_id) THEN GeneratedId(qs)
                                                     ELSE Val(question_id)))

SurveyInit ==
    /\ sys = "survey"
    /\ str_hash = 0
    /\ persona_data = PlainPersona
    /\ prompt = None
    /\ survey = None
    /\ runs = 0
    /\ delay = 0
    /\ clock = 0
    /\ api_key = TRUE
    /\ pc = "load"
    /\ personas = <<>>
    /\ questions = <<>>
    /\ pi = 1
    /\ qi = 1
    /\ responses = <<>>
    /\ row = <<>>
    /\ outcomes = <<>>
    /\ stored = <<>>
    /\ returned = None
    /\ stats = None
    /\ analysis = None

\* one survey.add_question(...) of load_survey_from_file or of the wizard
AddQuestion ==
    /\ pc = "load"
    /\ Len(questions) < MaxQuestions
    /\ \E question_id \in {None} \cup {Some(id) : id \in ExplicitIds} :
          questions' = AddQuestionTo(questions, question_id)
    /\ UNCHANGED <<sys, str_hash, persona_data, prompt, survey, runs, delay, clock,
                   api_key, pc, personas, pi, qi, responses, row, outcomes, stored,
                   returned, stats, analysis>>

\* self.survey = survey
SetSurvey ==
    /\ pc = "load"
    /\ survey' = Some(questions)
    /\ pc' = "loaded"
    /\ UNCHANGED <<sys, str_hash, persona_data, prompt, runs, delay, clock, api_key,
                   personas, questions, pi, qi, responses, row, outcomes, stored,
                   returned, stats, analysis>>

SurveyNext ==
    \/ AddQuestion
    \/ SetSurvey

SurveySpec == SurveyInit /\ [][SurveyNext]_vars

(***************************************************************************)
(* Repeated runs on one SurveySystem                                       *)
(***************************************************************************)
\* the most cells of one run, and the most runs counted
MaxRunCells == 2

MaxRuns == 2

\* the surveys of the runs
RunSurveys == {SurveyQuestions(m) : m \in 0..MaxRunCells}

\* the backend's behaviour in one call of a run: an exception, a text with a
\* score, a text without one
RunOutcomes ==
    {ErrorOutcome("timeout"), TextOutcome(<<"score:", "5", "reason:", "w">>),
     TextOutcome(<<"w">>)}

\* the backend's behaviour in the n calls of a run
OutcomeSeqs(n) == [1..n -> RunOutcomes]

\* the nested loops of conduct_survey: the record of every cell, persona by
\* persona, from the backend's behaviour in each call
CollectResponses(ps, qs, os) ==
    [k \in 1..(Len(ps) * Len(qs)) |->
        RespondToSurveyQuestion(ps[((k - 1) \div Len(qs)) + 1],
                                qs[((k - 1) % Len(qs)) + 1], os[k])]

RunsInit ==
    /\ sys = "survey"
    /\ str_hash = 0
    /\ persona_data = PlainPersona
    /\ prompt = None
    /\ survey = None
    /\ runs = 0
    /\ delay = 0
    /\ clock = 0
    /\ api_key = TRUE
    /\ pc = "ready"
    /\ personas = <<>>
    /\ questions = <<>>
    /\ pi = 1
    /\ qi = 1
    /\ responses = <<>>
    /\ row = <<>>
    /\ outcomes = <<>>
    /\ stored = <<>>
    /\ returned = None
    /\ stats = None
    /\ analysis = None

\* create_survey_wizard / load_survey_from_file: self.survey = survey
LoadSurvey ==
    /\ \E qs \in RunSurveys : survey' = Some(qs)
    /\ pc' = "ready"
    /\ UNCHANGED <<sys, str_hash, persona_data, prompt, runs, delay, clock, api_key,
                   personas, questions, pi, qi, responses, row, outcomes, stored,
                   returned, stats, analysis>>

\* conduct_survey(personas, survey): the whole call.  A Survey object is
\* always true, so "not survey" holds for None only.
ConductSurvey ==
    /\ \E ps \in {Rotated(PersonaPool, 0, n) : n \in 0..MaxRunCells}, arg \in {None} \cup {Some(qs) : qs \in RunSurveys} :
         LET used == IF IsNone(arg) THEN survey ELSE arg
         IN  IF IsNone(used)
             THEN /\ returned' = Some(<<>>)
                  /\ outcomes' = <<>>
                  /\ pc' = "no_survey"
                  /\ UNCHANGED <<personas, questions, responses, stored, stats, runs>>
             ELSE /\ Len(ps) * Len(Val(used)) <= MaxRunCells
                  /\ \E os \in OutcomeSeqs(Len(ps) * Len(Val(used))) :
                        /\ outcomes' = os
                        /\ responses' = CollectResponses(ps, Val(used), os)
                  /\ personas' = ps
                  /\ questions' = Val(used)
                  /\ stored' = StoreResults(sys, stored, responses')
                  /\ stats' = Some(ShowResponseStatistics(responses'))
                  /\ returned' = Some(responses')
                  /\ runs' = IF Len(responses') > 0 THEN Min2(runs + 1, MaxRuns) ELSE runs
                  /\ pc' = "conducted"
    /\ UNCHANGED <<sys, str_hash, persona_data, prompt, survey, delay, clock, api_key,
                   pi, qi, row, analysis>>

\* get_responses()
GetResponses ==
    /\ returned' = Some(stored)
    /\ pc' = "got"
    /\ UNCHANGED <<sys, str_hash, persona_data, prompt, survey, runs, delay, clock,
                   api_key, personas, questions, pi, qi, responses, row, outcomes,
                   stored, stats, analysis>>

RunsNext ==
    \/ LoadSurvey
    \/ ConductSurvey
    \/ GetResponses

RunsSpec == RunsInit /\ [][RunsNext]_vars

(***************************************************************************)
(* Properties                                                              *)
(***************************************************************************)
\* the records produced so far, in production order
Produced == responses \o row

Running == pc \in {"cell", "sleep", "finish", "done"}

\* the question a record answers
QuestionOf(r) == CHOOSE q \in SeqRange(questions) : q.question_id = r.question_id

\* a record that says its cell failed: the error key, or the error text the
\* simulator puts into the response field
IsFailedRecord(r) ==
    \/ ~IsNone(r.error)
    \/ ~IsNone(r.response) /\ Len(Val(r.response)) > 0
         /\ Val(r.response)[1] = "response error:"

\* C1: a batch that returns (no cancellation) returns exactly N x M records,
\* and the record at position i*M + j belongs to persona i and question j of
\* the input lists, whatever the backend did in any cell
C1_Completeness ==
    pc = "done" =>
        LET out == Val(returned)
            n == Len(personas)
            m == Len(questions)
        IN  /\ Len(out) = n * m
            /\ \A i \in 0..(n - 1), j \in 0..(m - 1) :
                  /\ out[i * m + j + 1].persona_id = personas[i + 1]
                  /\ out[i * m + j + 1].question_id = questions[j + 1].question_id

C1_Witness ==
    /\ pc = "done"
    /\ sys = "survey"
    /\ Len(personas) = 2
    /\ Len(questions) = 2
    /\ outcomes[2].kind = "error"
    /\ outcomes[3].kind = "text"

\* C2: a failed backend call gives a failed record for its own cell, the
\* batch goes on: every cell is invoked, in order, and a cell whose call
\* returned a text is not marked with a backend error
C2_FailureIsolation ==
    (sys \in {"survey", "dt", "enh"} /\ Running) =>
        /\ Len(Produced) = Len(outcomes)
        /\ \A k \in 1..Len(outcomes) :
              /\ Produced[k].persona_id = personas[outcomes[k].persona]
              /\ Produced[k].question_id = questions[outcomes[k].question].question_id
              /\ outcomes[k].kind = "error" => Produced[k].error = Some(outcomes[k].msg)
              /\ outcomes[k].kind = "text" =>
                    \/ IsNone(Produced[k].error)
                    \/ Val(Produced[k].error) \notin BackendErrors
        /\ pc = "done" =>
              /\ Len(outcomes) = Len(personas) * Len(questions)
              /\ \A k \in 1..Len(outcomes) :
                    (outcomes[k].persona - 1) * Len(questions) + outcomes[k].question = k

C2_Witness ==
    /\ pc = "done"
    /\ sys = "survey"
    /\ Len(personas) = 2
    /\ Len(questions) = 2
    /\ outcomes[2].kind = "error"
    /\ Val(returned)[2].error = Some("rate_limited")
    /\ Val(returned)[3].score = Some(5)
    /\ Val(returned)[4].score = Some(6)

\* C3: a cancelled batch returns all records collected so far
C3_CancelReturnsCollected ==
    (sys = "survey" /\ pc = "interrupted") =>
        /\ ~IsNone(returned)
        /\ Len(Val(returned)) = Len(outcomes)

\* C4: no exception escapes a batch run of a configured system
C4_NoExceptionEscapes == pc # "raised"

\* C5: the record of a cell whose backend call failed is marked failed with
\* the error message and has neither a score nor a raw text
C5_FailedRecordShape ==
    (sys \in {"survey", "dt", "enh"} /\ Running) =>
        \A k \in 1..Len(outcomes) :
            outcomes[k].kind = "error" =>
                /\ Produced[k].error = Some(outcomes[k].msg)
                /\ IsNone(Produced[k].score)
                /\ IsNone(Produced[k].raw)

\* C6: the score of every record of a Likert question is None or lies within
\* the question's scale
C6_ScoreInRange ==
    Running =>
        \A k \in 1..Len(Produced) :
            LET r == Produced[k]
                q == QuestionOf(r)
            IN  (q.type = "likert" /\ ~IsNone(r.score)) =>
                    (q.lo <= Val(r.score) /\ Val(r.score) <= q.hi)

\* C7: the confidence of every record that has one lies in [0, 1] (0..100
\* hundredths), failed cells included
C7_ConfidenceBound ==
    \A k \in 1..Len(Produced) :
        ~IsNone(Produced[k].confidence) =>
            (0 <= Val(Produced[k].confidence) /\ Val(Produced[k].confidence) <= 100)

C7_Witness ==
    /\ sys = "enh"
    /\ pc = "done"
    /\ \E k \in 1..Len(Produced) :
          /\ ~IsNone(Produced[k].raw)
          /\ ConfidenceSum(Val(Produced[k].raw), Produced[k].score) > 100
          /\ Produced[k].confidence = Some(100)
    /\ \E k \in 1..Len(Produced) :
          /\ IsFailedRecord(Produced[k])
          /\ Produced[k].confidence = Some(0)

C9_OnlyTransportFailuresCount ==
    (sys = "survey" /\ pc = "done") =>
        /\ \A k \in 1..Len(outcomes) :
              ~IsNone(Produced[k].error) => outcomes[k].kind # "text"
        /\ \A qid \in DOMAIN Val(stats) :
              Val(stats)[qid].errors =
                  Cardinality({k \in 1..Len(outcomes) :
                      /\ Produced[k].question_id = qid
                      /\ outcomes[k].kind # "text"})

\* C10: the statistics are computed over exactly the records that are not
\* failed and have a score
C10_StatsExcludeFailed ==
    ~IsNone(analysis) =>
        \A key \in DOMAIN Val(analysis).questions :
            LET rs == IF key = "all" THEN Val(returned) ELSE RecordsOf(Val(returned), key)
                good == SelectSeqIdx(rs, {i \in 1..Len(rs) : ~IsFailedRecord(rs[i])})
            IN  Val(analysis).questions[key].scores = CollectScores(good)

\* Python list prefix: s is the start of t
IsPrefix(s, t) == Len(s) <= Len(t) /\ SubSeq(t, 1, Len(s)) = s

\* C11: while a batch runs and when it returns, the output list of any
\* earlier moment is a prefix of the output list of any later moment: a
\* record once appended is neither changed nor removed, and the returned
\* list and the stored attribute end with exactly the records produced
C11_AppendOnly ==
    [][(Running /\ Running') =>
          /\ IsPrefix(Produced, Produced')
          /\ pc' = "done" =>
                /\ Val(returned') = Produced
                /\ IsPrefix(stored, stored')
                /\ (IF sys = "dt" THEN stored'[Len(stored')] ELSE stored') = Produced]_vars

C11_Witness ==
    /\ sys = "dt"
    /\ pc = "done"
    /\ Len(Val(returned)) = 4
    /\ Len(questions) = 2
    /\ ~IsNone(Val(returned)[1].error)
    /\ Val(returned)[4].score = Some(6)

\* the parts of a record that come from parsing the received text
ParsedPart(r) == <<r.score, r.reasoning, r.response, r.error>>

C13_TraitsDeterministic ==
    \A k \in 1..Len(outcomes) :
        \A h \in HashResidues :
            outcomes[k].traits = BuildTraits(sys, personas[outcomes[k].persona], h)

\* the text a parser was applied to, as the agent sees it
ParsedText == Strip(outcomes[1].text)

\* C14: a text whose score tag carries an integer within the scale is parsed
\* to that integer, whatever digits stand elsewhere, and when a reason tag
\* with text after it is present the reasoning is all the text after that tag
C14_TaggedParse ==
    (pc = "parsed" /\ sys \in {"survey", "enh"} /\ questions[1].type = "likert") =>
        LET t == ParsedText
            tags == {i \in 1..Len(t) : /\ t[i] = ScoreTag
                                       /\ SkipNewlines(t, i + 1) <= Len(t)
                                       /\ HasDigitPrefix(t[SkipNewlines(t, i + 1)])}
            n == DigitPrefix(t[SkipNewlines(t, SetMin(tags) + 1)])
            reasons == {i \in 1..Len(t) : t[i] = ReasonTag /\ SkipNewlines(t, i + 1) <= Len(t)}
        IN  (tags # {} /\ questions[1].lo <= n /\ n <= questions[1].hi) =>
                /\ responses[1].score = Some(n)
                /\ reasons # {} =>
                      responses[1].reasoning =
                          Some(SubSeq(t, SkipNewlines(t, SetMin(reasons) + 1), Len(t)))

\* positions of the integer literals of t that lie within the scale of q
LiteralsInScale(t, q) ==
    {i \in 1..Len(t) : t[i] \in NumberTokens /\ q.lo <= IntOf(t[i]) /\ IntOf(t[i]) <= q.hi}

\* the text carries the documented answer format: the score tag, or for
\* DigitalTwinSurveySystem the JSON object
HasTag(t) == \E i \in 1..Len(t) : t[i] \in {ScoreTag, "{answer:", "{"}

\* C15: a Likert answer without the tag that contains an integer literal
\* within the scale is parsed to the first such literal, also when the text
\* is nothing but that integer
C15_FallbackFirstInteger ==
    (pc = "parsed" /\ questions[1].type = "likert") =>
        LET t == ParsedText
            lits == LiteralsInScale(t, questions[1])
        IN  (~HasTag(t) /\ lits # {}) =>
                responses[1].score = Some(IntOf(t[SetMin(lits)]))

\* the integer the answer format carries: the number after the first score
\* tag, or the answer of the JSON object; None when there is none
TaggedInteger(t) ==
    LET tags == {i \in 1..Len(t) : /\ t[i] = ScoreTag
                                   /\ SkipNewlines(t, i + 1) <= Len(t)
                                   /\ HasDigitPrefix(t[SkipNewlines(t, i + 1)])}
    IN  IF sys = "dt"
        THEN (IF Len(t) = 3 /\ t[1] = "{answer:" /\ t[2] \in NumberTokens /\ t[3] = "}"
              THEN Some(IntOf(t[2])) ELSE None)
        ELSE IF tags # {} THEN Some(DigitPrefix(t[SkipNewlines(t, SetMin(tags) + 1)]))
        ELSE None

\* a note in a reasoning text that says the value was clamped
NotesClamping(reasoning) ==
    ~IsNone(reasoning) /\ \E i \in 1..Len(Val(reasoning)) : Val(reasoning)[i] = "clamped"

\* C16: a tagged integer outside the scale is stored clamped to the nearer
\* bound and the record's reasoning says that the value was clamped
C16_ClampNoted ==
    (pc = "parsed" /\ questions[1].type = "likert") =>
        LET n == TaggedInteger(ParsedText)
            q == questions[1]
        IN  (~IsNone(n) /\ (Val(n) < q.lo \/ Val(n) > q.hi)) =>
                /\ responses[1].score = Some(IF Val(n) < q.lo THEN q.lo ELSE q.hi)
                /\ NotesClamping(responses[1].reasoning)

\* the text holds no integer at all, standing alone or glued to a word
NoInteger(t) == \A i \in 1..Len(t) : ~HasDigitPrefix(t[i])

\* C17: a Likert answer without any integer is parsed to the scale midpoint,
\* its score enters the statistics (it is not counted as an error), and the
\* record's error annotation says that no number was found
C17_MidpointFallback ==
    (pc = "reported" /\ questions[1].type = "likert") =>
        LET q == questions[1]
            mid == q.lo + ((q.hi - q.lo) \div 2)
            shown == Val(analysis).questions
        IN  NoInteger(ParsedText) =>
                /\ responses[1].score = Some(mid)
                /\ \A key \in DOMAIN shown : shown[key].scores = <<mid>>
                /\ sys = "survey" => Val(stats)[q.question_id].errors = 0
                /\ ~IsNone(responses[1].error)

\* C18: a response whose score came from the strict tagged parse has a
\* confidence strictly above the one the same response gets without a strict
\* score, whatever its length and marker words
C18_StrictBeatsFallback ==
    (pc = "parsed" /\ sys = "enh" /\ questions[1].type = "likert") =>
        (~IsNone(responses[1].score) =>
            CalculateConfidence(ParsedText, None) < Val(responses[1].confidence))

\* str.lower() of a token
Lower(tok) == IF tok = "Performance" THEN "performance" ELSE tok

\* the options of q that occur in t, compared case-insensitively, by position
\* in the option list
OptionsIn(t, q) ==
    {k \in 1..Len(q.options) : \E i \in 1..Len(t) : Lower(t[i]) = Lower(q.options[k])}

\* C19: the parsed value of a multiple choice answer is the first option, in
\* option order, that occurs in the text without regard to case, and None
\* when no option occurs
C19_MultipleChoiceOption ==
    (pc = "parsed" /\ sys = "enh" /\ questions[1].type = "multiple_choice") =>
        LET q == questions[1]
            found == OptionsIn(ParsedText, q)
        IN  responses[1].response =
                (IF found # {} THEN Some(<<q.options[SetMin(found)]>>) ELSE None)

\* C20: the parsed value of an open-ended answer is the text itself and the
\* record is not failed; an empty text gives a failed record
C20_OpenEnded ==
    (pc = "parsed" /\ sys = "enh" /\ questions[1].type = "open_ended") =>
        IF ParsedText = <<>>
        THEN IsFailedRecord(responses[1])
        ELSE /\ responses[1].response = Some(ParsedText)
             /\ ~IsFailedRecord(responses[1])

\* C21: every cell makes exactly one backend call, the calls follow the cell
\* order one at a time, failed calls are not repeated, and between the call
\* of one cell (whose record is appended at once) and the call of the next
\* at least the batch's delay passes
C21_OneCallPerCellWithDelay ==
    (sys \in {"survey", "dt", "enh"} /\ Running) =>
        /\ Len(outcomes) = Len(Produced)
        /\ \A k \in 1..Len(outcomes) :
              (outcomes[k].persona - 1) * Len(questions) + outcomes[k].question = k
        /\ \A k \in 1..(Len(outcomes) - 1) :
              outcomes[k + 1].at - outcomes[k].at >= delay
        /\ pc = "done" => Len(outcomes) = Len(personas) * Len(questions)

C21_Witness ==
    /\ sys = "survey"
    /\ pc = "done"
    /\ delay = 5
    /\ Len(personas) = 2
    /\ Len(questions) = 2
    /\ outcomes[2].kind = "error"
    /\ outcomes[3].at - outcomes[2].at = 5
    /\ outcomes[4].at = 15

\* C22: the record of a failed backend call has no response text and no raw
\* text: the failure is shown by the error value alone
C22_ErrorDistinctFromText ==
    (sys \in {"survey", "dt", "enh"} /\ Running) =>
        \A k \in 1..Len(outcomes) :
            outcomes[k].kind = "error" =>
                /\ ~IsNone(Produced[k].error)
                /\ IsNone(Produced[k].response)
                /\ IsNone(Produced[k].raw)

\* C23: when the persona has a real age attribute, the context of a builder
\* that derives an age group from the id shows the attribute and not the
\* derived age group
C23_AttributesTakePrecedence ==
    (pc = "built" /\ sys \in {"survey", "enh", "adv"}) =>
        (~IsNone(persona_data.age) =>
            Val(prompt).age = <<"attribute", Val(persona_data.age)>>)

\* C24: the persona text placed in a prompt is at most the builder's budget
\* long (200 characters for the agents, 300 for the simulator, 2000 for the
\* digital twin prompts): a longer biography is cut to the budget, a shorter
\* one is placed unchanged
C24_PersonaTextWithinBudget ==
    pc = "built" =>
        LET budget == CASE sys \in {"survey", "enh"} -> 200
                        [] sys = "adv" -> 300
                        [] OTHER -> 2000
            placed == Val(prompt).biography
            n == persona_data.text_len
        IN  /\ placed.chars + placed.suffix <= budget
            /\ n <= budget => placed = Placed(n, 0)
            /\ n > budget => placed.chars = budget

\* C25: for a Likert question the range named in the prompt's answer format
\* and the range of scores the parser gives are both the question's scale
C25_PromptAndParserRange ==
    (pc = "built" /\ sys \in {"survey", "enh"} /\ questions[1].type = "likert") =>
        LET q == questions[1]
            parsed == {IF sys = "enh"
                       THEN ParseSurveyResponse(<<ScoreTag, tok>>, q.type, q.lo, q.hi).score
                       ELSE ExtractScore(<<ScoreTag, tok>>) : tok \in NumberTokens}
            accepted == {Val(sc) : sc \in parsed \ {None}}
        IN  /\ Val(prompt).format = <<q.lo, q.hi>>
            /\ SetMin(accepted) = q.lo
            /\ SetMax(accepted) = q.hi

\* C26: when generate_survey_response or generate_interview_response has
\* returned for a list of questions, every question of the list was asked
\* once, in order, and has its entry in the result, in order, whichever of
\* the calls failed
C26_FailureDoesNotStopQuestions ==
    (pc = "answered"
     /\ sys \in {"generate_survey_response", "generate_interview_response"}
     /\ Len(questions) > 0) =>
        /\ Len(outcomes) = Len(questions)
        /\ \A k \in 1..Len(outcomes) : outcomes[k].question = k
        /\ Len(Val(returned)) = Len(questions)
        /\ \A k \in 1..Len(Val(returned)) : Val(returned)[k].question = k

\* C27: a conduct_survey call that has a survey makes one backend call per
\* cell and leaves exactly the records of that run stored; a call without a
\* survey returns the empty list, makes no backend call and leaves the
\* stored responses unchanged; get_responses returns the stored responses
C27_LatestRunReplaces ==
    [][/\ pc' = "conducted" =>
            /\ Len(outcomes') = Len(personas') * Len(questions')
            /\ stored' = CollectResponses(personas', questions', outcomes')
            /\ returned' = Some(stored')
       /\ pc' = "no_survey" =>
            /\ returned' = Some(<<>>)
            /\ outcomes' = <<>>
            /\ stored' = stored
       /\ pc' = "got" =>
            /\ returned' = Some(stored)
            /\ stored' = stored]_vars

\* after two runs that collected records and a later call without a survey,
\* get_responses returns the single record of the later run
C27_Witness ==
    /\ pc = "got"
    /\ runs = 2
    /\ IsNone(survey)
    /\ outcomes = <<>>
    /\ Len(Val(returned)) = 1
    /\ Val(returned) = responses

\* C28: all question ids of a survey under construction are distinct
C28_QuestionIdsDistinct ==
    pc \in {"load", "loaded"} =>
        \A i, j \in 1..Len(questions) :
            questions[i].question_id = questions[j].question_id => i = j

\* C29: in the analysis of a SurveySystem batch, every question id of the
\* records has an entry whose scored records plus errors are the records
\* carrying that id, and the entries together cover total_responses; the
\* statistics table of conduct_survey counts the same way
C29_ScoredPlusErrors ==
    (sys = "survey" /\ pc = "done" /\ ~IsNone(analysis)) =>
        LET rs == Val(returned)
            a == Val(analysis)
            Carrying(qid) == Cardinality({i \in 1..Len(rs) : rs[i].question_id = qid})
            Covered(qid) == IF qid \in DOMAIN a.questions
                            THEN Len(a.questions[qid].scores) + Val(a.questions[qid].errors)
                            ELSE 0
        IN  /\ DOMAIN a.questions = {rs[i].question_id : i \in 1..Len(rs)}
            /\ \A qid \in DOMAIN a.questions : Covered(qid) = Carrying(qid)
            /\ SeqSum([k \in 1..Len(QuestionIds) |-> Covered(QuestionIds[k])])
                  = a.total_responses
            /\ a.total_responses = Len(rs)
            /\ \A qid \in DOMAIN Val(stats) :
                  Len(Val(stats)[qid].scores) + Val(stats)[qid].errors = Carrying(qid)

\* two personas, two questions: Q1 has one scored record and one record
\* without a score that is no failed call
C29_Witness ==
    /\ sys = "survey" /\ pc = "done" /\ ~IsNone(analysis)
    /\ Len(personas) = 2 /\ Len(questions) = 2
    /\ Len(Val(analysis).questions["Q1"].scores) = 1
    /\ Val(analysis).questions["Q1"].errors = Some(1)
    /\ outcomes[3].kind = "text"
    /\ Val(analysis).total_responses = 4

====
